---- MODULE Spec2Model ----
(***************************************************************************)
(* The innings engine of tournmant.cpp: Player statistics, the Innings     *)
(* state, the opening setup (setBatsmen, setBowler) and the per-ball step  *)
(* (playBall with changeStrike, changeBatsman, changeBowler); and on top   *)
(* of it Match (setupInnings, playMatch, determineResult,                  *)
(* calculatePlayerOfMatch), Team and the rounds of Tournament.             *)
(* Indices are 0-based as in the C++ source; the orders are TLA+ sequences *)
(* and are read through At(order, i) == order[i + 1].                      *)
(***************************************************************************)
EXTENDS Integers, Sequences, FiniteSets, TLC

\* ----------------------------------------------------------------- bounds
\* The model draws a run outcome only while the innings total stays within
\* MaxRuns (every outcome value can still fall on every ball of the innings).
MaxRuns == 6
\* How many times playBall is called again on an innings that is Complete.
MaxIdleCalls == 1
\* How many fixtures of the tournament the rounds in sequence play.
MaxRounds == 2

\* ------------------------------------------------------ program constants
MaxWickets == 2
MaxOvers == 2
BallsPerOver == 6
WicketOutcome == 5

\* PlayerType (enum class PlayerType)
PlayerType == {"BATSMAN", "BOWLER", "ALLROUNDER"}

\* vector<int> ballOutcomes = {0, 1, 2, 3, 4, 5, 6}; 5 = wicket
ballOutcomes == {0, 1, 2, 3, 4, 5, 6}

\* ----------------------------------------------------------------- teams
Range(s) == {s[i] : i \in 1..Len(s)}

\* createTeams: the four teams, in the order they are added.
teams == <<"A", "B", "C", "D">>

\* createPlayers gives every team five players and selectPlaying5 fields
\* them all: the playing five of each team, in the order they were added.
playing5 ==
    [t \in Range(teams) |->
        CASE t = "A" -> <<"A1", "A2", "A3", "A4", "A5">>
          [] t = "B" -> <<"B1", "B2", "B3", "B4", "B5">>
          [] t = "C" -> <<"C1", "C2", "C3", "C4", "C5">>
          [] OTHER -> <<"D1", "D2", "D3", "D4", "D5">>]

Players == UNION {Range(playing5[t]) : t \in Range(teams)}

\* The role createPlayers gave each player (typeChoice 1, 2 or 3).
typeOf ==
    [p \in Players |->
        CASE p \in {"A1", "A4", "B2", "C2", "C4", "D1"} -> "BATSMAN"
          [] p \in {"A2", "B1", "B4", "C1", "D2"} -> "BOWLER"
          [] OTHER -> "ALLROUNDER"]

\* The names typed at setupInnings (cin >> striker ...): the first, second
\* and last player of the side, or a name nobody of the side has.
NoSuchName == "nobody"
BatsmanNames == {"A1", "A2", "A5", NoSuchName}
BowlerNames == {"B1", "B5", NoSuchName}

At(order, i) == order[i + 1]

VARIABLES
    pc,               \* where Match::setupInnings / playMatch stands
    currentBatsman1,  \* index of the on-strike batter
    currentBatsman2,  \* index of the off-strike batter
    currentBowler,
    previousBowler,
    totalRuns,
    totalWickets,
    totalOvers,
    totalBalls,
    currentOverBalls,
    playerRuns,       \* map<Player, int> of the innings
    playerWickets,    \* map<Player, int> of the innings
    stats,            \* the Player objects' fields
    outcome,          \* the local `outcome` of the last ball played (-1: none)
    calls,            \* number of playBall calls made so far
    ballRuns,         \* sum of the run outcomes drawn so far (a wicket adds 0)
    battingTeam,      \* Innings::battingTeam of the innings above
    bowlingTeam,      \* Innings::bowlingTeam of the innings above
    otherInnings,     \* the match's other Innings object (a record of its fields)
    script,           \* the outcomes the random draws of the match will return:
                      \* <<those of innings1 still to come, those of innings2>>
    teamStats,        \* the Team objects' counters
    currentRound,     \* Tournament::currentRound
    result,           \* Match::result of the current match
    awardees,         \* player1, player2 of calculatePlayerOfMatch
    playerOfMatch,    \* Match::playerOfMatch of the current match
    nameMissing,      \* a name typed at setupInnings was in nobody's lineup
    creditsBefore     \* every player's totalCredits when the match was set up

\* The orders the Innings constructor copied from the two teams.
battingOrder == playing5[battingTeam]
bowlingOrder == playing5[bowlingTeam]

innings == <<currentBatsman1, currentBatsman2, currentBowler, previousBowler,
             totalRuns, totalWickets, totalOvers, totalBalls, currentOverBalls,
             playerRuns, playerWickets>>
vars == <<pc, currentBatsman1, currentBatsman2, currentBowler, previousBowler,
          totalRuns, totalWickets, totalOvers, totalBalls, currentOverBalls,
          playerRuns, playerWickets, stats, outcome, calls, ballRuns,
          battingTeam, bowlingTeam, otherInnings, script, teamStats,
          currentRound, result, awardees, playerOfMatch, nameMissing,
          creditsBefore>>

\* What Innings::setBatsmen, setBowler and playBall never touch: which teams
\* the innings is between, the other innings, the Match and the Tournament.
matchVars == <<battingTeam, bowlingTeam, otherInnings, script, teamStats,
               currentRound, result, awardees, playerOfMatch, nameMissing,
               creditsBefore>>

\* ---------------------------------------------------------------- Player
\* Player(n, a, t) with the fields of the derived classes Batsman and Bowler.
NewPlayer(t) ==
    [type |-> t, totalCredits |-> 0, matchCredits |-> 0,
     totalRunsScored |-> 0, totalBallsFaced |-> 0, totalWicketsTaken |-> 0,
     totalBallsBowled |-> 0, totalRunsConceded |-> 0,
     runsScored |-> 0, ballsFaced |-> 0, fours |-> 0, sixes |-> 0,
     wicketsTaken |-> 0, runsConceded |-> 0, ballsBowled |-> 0]

\* virtual updateCredits(runs, wickets), by dynamic type
updateCredits(p, runs, wickets) ==
    LET c == CASE p.type = "BATSMAN" -> runs \div 20
               [] p.type = "BOWLER" -> wickets
               [] OTHER -> (runs \div 20) + wickets
    IN [p EXCEPT !.matchCredits = @ + c, !.totalCredits = @ + c]

\* virtual addRuns(runs): Batsman::addRuns, Bowler::addRuns, Player::addRuns
addRuns(p, runs) ==
    CASE p.type = "BATSMAN" ->
           LET q == updateCredits([p EXCEPT !.runsScored = @ + runs,
                                            !.totalRunsScored = @ + runs],
                                  runs, 0)
           IN IF runs = 4 THEN [q EXCEPT !.fours = @ + 1]
              ELSE IF runs = 6 THEN [q EXCEPT !.sixes = @ + 1]
              ELSE q
      [] p.type = "BOWLER" ->
           [p EXCEPT !.runsConceded = @ + runs, !.totalRunsConceded = @ + runs]
      [] OTHER -> [p EXCEPT !.totalRunsScored = @ + runs]

\* virtual addBall(): Batsman::addBall, Bowler::addBall, Player::addBall
addBall(p) ==
    CASE p.type = "BATSMAN" ->
           [p EXCEPT !.ballsFaced = @ + 1, !.totalBallsFaced = @ + 1]
      [] p.type = "BOWLER" ->
           [p EXCEPT !.ballsBowled = @ + 1, !.totalBallsBowled = @ + 1]
      [] OTHER -> [p EXCEPT !.totalBallsBowled = @ + 1]

\* virtual addWicket(): Bowler::addWicket, Player::addWicket
addWicket(p) ==
    CASE p.type = "BOWLER" ->
           updateCredits([p EXCEPT !.wicketsTaken = @ + 1,
                                   !.totalWicketsTaken = @ + 1], 0, 1)
      [] OTHER -> [p EXCEPT !.totalWicketsTaken = @ + 1]

\* --------------------------------------------------------------- Innings
\* A completion test with > where the code has >=.
isInningsCompleteStrict == totalWickets > MaxWickets \/ totalOvers > MaxOvers

\* A completion test that ends the innings at the first wicket.
isInningsCompleteAtOneWicket == totalWickets >= 1 \/ totalOvers >= MaxOvers

\* isInningsComplete: totalWickets >= 2 || totalOvers >= 2
isInningsComplete == totalWickets >= MaxWickets \/ totalOvers >= MaxOvers

\* The loop of setBatsmen / setBowler: the index of the last position of
\* `order` whose player is called `name`, or `dflt` when no position is.
RECURSIVE findIndex(_, _, _, _)
findIndex(order, name, i, dflt) ==
    IF i >= Len(order) THEN dflt
    ELSE findIndex(order, name, i + 1, IF At(order, i) = name THEN i ELSE dflt)

\* Innings(batting, bowling): the fields of a newly constructed innings.
NewInnings(batting, bowling) ==
    [battingTeam |-> batting, bowlingTeam |-> bowling,
     currentBatsman1 |-> 0, currentBatsman2 |-> 1,
     currentBowler |-> 0, previousBowler |-> -1,
     totalRuns |-> 0, totalWickets |-> 0, totalOvers |-> 0,
     totalBalls |-> 0, currentOverBalls |-> 0,
     playerRuns |-> [p \in Range(playing5[batting]) |-> 0],
     playerWickets |-> [p \in Range(playing5[bowling]) |-> 0]]

\* Team(n, c): the counters of a newly constructed team.
NewTeam ==
    [points |-> 0, matchesPlayed |-> 0, matchesWon |-> 0,
     matchesLost |-> 0, matchesTied |-> 0]

\* Fixtures with a return leg: every ordered pair i # j of teams.
matchesHomeAndAway ==
    LET n == Len(teams)
        pairs == {a \in (1..n) \X (1..n) : a[1] # a[2]}
        before(a, b) == a[1] < b[1] \/ (a[1] = b[1] /\ a[2] < b[2])
        rank(a) == Cardinality({b \in pairs : before(b, a)}) + 1
    IN [k \in 1..Cardinality(pairs) |->
           LET a == CHOOSE c \in pairs : rank(c) = k
           IN [team1 |-> teams[a[1]], team2 |-> teams[a[2]]]]

\* generateFixtures: every pair i < j of teams, in the order of the loops.
matches ==
    LET n == Len(teams)
        pairs == {a \in (1..n) \X (1..n) : a[1] < a[2]}
        before(a, b) == a[1] < b[1] \/ (a[1] = b[1] /\ a[2] < b[2])
        rank(a) == Cardinality({b \in pairs : before(b, a)}) + 1
    IN [k \in 1..Cardinality(pairs) |->
           LET a == CHOOSE c \in pairs : rank(c) = k
           IN [team1 |-> teams[a[1]], team2 |-> teams[a[2]]]]

\* The tournament after createTeams, createPlayers and generateFixtures, with
\* the two innings of the first fixture: innings1 = Innings(team1, team2),
\* innings2 = Innings(team2, team1).
Constructed ==
    /\ battingTeam = matches[1].team1
    /\ bowlingTeam = matches[1].team2
    /\ otherInnings = NewInnings(matches[1].team2, matches[1].team1)
    /\ script = <<>>
    /\ teamStats = [t \in Range(teams) |-> NewTeam]
    /\ currentRound = 0
    /\ result = "unset"
    /\ awardees = [player1 |-> "null", player2 |-> "null"]
    /\ playerOfMatch = "null"
    /\ nameMissing = FALSE
    /\ creditsBefore = [p \in Players |-> 0]

Init ==
    /\ pc = "setBatsmen"
    /\ Constructed
    /\ currentBatsman1 = 0
    /\ currentBatsman2 = 1
    /\ currentBowler = 0
    /\ previousBowler = -1
    /\ totalRuns = 0
    /\ totalWickets = 0
    /\ totalOvers = 0
    /\ totalBalls = 0
    /\ currentOverBalls = 0
    /\ playerRuns = [p \in Range(battingOrder) |-> 0]
    /\ playerWickets = [p \in Range(bowlingOrder) |-> 0]
    /\ stats = [p \in Players |-> NewPlayer(typeOf[p])]
    /\ outcome = -1
    /\ calls = 0
    /\ ballRuns = 0

setBatsmen(striker, nonStriker) ==
    /\ pc = "setBatsmen"
    /\ currentBatsman1' = findIndex(battingOrder, striker, 0, currentBatsman1)
    /\ currentBatsman2' = findIndex(battingOrder, nonStriker, 0, currentBatsman2)
    /\ pc' = "setBowler"
    /\ UNCHANGED <<currentBowler, previousBowler, totalRuns, totalWickets,
                   totalOvers, totalBalls, currentOverBalls, playerRuns,
                   playerWickets, stats, outcome, calls, ballRuns, matchVars>>

setBowler(bowlerName) ==
    /\ pc = "setBowler"
    /\ currentBowler' = findIndex(bowlingOrder, bowlerName, 0, currentBowler)
    /\ pc' = "play"
    /\ UNCHANGED <<currentBatsman1, currentBatsman2, previousBowler, totalRuns,
                   totalWickets, totalOvers, totalBalls, currentOverBalls,
                   playerRuns, playerWickets, stats, outcome, calls, ballRuns,
                   matchVars>>

\* A swap that overwrites one index before reading it.
changeStrikeLossy(b) == [b1 |-> b.b2, b2 |-> b.b2]

\* changeStrike: swap(currentBatsman1, currentBatsman2)
changeStrike(b) == [b1 |-> b.b2, b2 |-> b.b1]

\* A replacement that does not test nextBatsman against the order's size.
changeBatsmanUnchecked(b) ==
    LET nextBatsman == (IF b.b1 > b.b2 THEN b.b1 ELSE b.b2) + 1
    IN IF b.b1 > b.b2 THEN [b EXCEPT !.b1 = nextBatsman]
       ELSE [b EXCEPT !.b2 = nextBatsman]

\* changeBatsman, on the pair b = [b1, b2] of batter indices
changeBatsman(b) ==
    LET nextBatsman == (IF b.b1 > b.b2 THEN b.b1 ELSE b.b2) + 1
    IN IF nextBatsman < Len(battingOrder)
       THEN IF b.b1 > b.b2 THEN [b EXCEPT !.b1 = nextBatsman]
            ELSE [b EXCEPT !.b2 = nextBatsman]
       ELSE b

\* The do-while of changeBowler, entered with previousBowler = prev: the
\* bowler it stops at and the number of times its body ran (iter counts the
\* runs of the body before this one).
RECURSIVE nextBowler(_, _, _)
nextBowler(cur, prev, iter) ==
    LET n == (cur + 1) % Len(bowlingOrder)
    IN IF n = prev THEN nextBowler(n, prev, iter + 1)
       ELSE [currentBowler |-> n, iterations |-> iter + 1]

\* A rotation that forgets to wrap around the bowling order.
changeBowlerNoWrap(cur) == [currentBowler |-> cur + 1, previousBowler |-> cur]

\* changeBowler: the new currentBowler and previousBowler
changeBowler(cur) ==
    [currentBowler |-> nextBowler(cur, cur, 0).currentBowler, previousBowler |-> cur]

\* An over test that fires one ball late.
overCompleteLate(balls) == balls > BallsPerOver

\* if (currentOverBalls == 6)
overComplete(balls) == balls = BallsPerOver

\* A score update that takes the wicket symbol 5 for five runs.
scoreAfterCountingWicket(total, o) == total + o

\* totalRuns after a ball: totalRuns += outcome, on the runs branch only
scoreAfter(total, o) == IF o = WicketOutcome THEN total ELSE total + o

\* The body of playBall after the isInningsComplete guard, for a drawn `o`.
playBallBody(o) ==
    LET bowler == At(bowlingOrder, currentBowler)
        striker == At(battingOrder, currentBatsman1)
        b0 == [b1 |-> currentBatsman1, b2 |-> currentBatsman2]
        \* if (outcome == 5) { ... } else { ... }
        s1 == IF o = WicketOutcome
              THEN [stats EXCEPT ![bowler] = addBall(addWicket(@))]
              ELSE [stats EXCEPT ![striker] = addBall(addRuns(@, o))]
        b == IF o = WicketOutcome THEN changeBatsman(b0)
             ELSE IF o % 2 = 1 THEN changeStrike(b0)
             ELSE b0
        \* totalBalls++; currentOverBalls++; bowler->addBall()
        s2 == [s1 EXCEPT ![bowler] = addBall(@)]
        overDone == overComplete(currentOverBalls + 1)
        bw == IF overDone THEN changeBowler(currentBowler)
              ELSE [currentBowler |-> currentBowler, previousBowler |-> previousBowler]
    IN /\ totalWickets' = IF o = WicketOutcome THEN totalWickets + 1 ELSE totalWickets
       /\ playerWickets' = IF o = WicketOutcome
                           THEN [playerWickets EXCEPT ![bowler] = @ + 1]
                           ELSE playerWickets
       /\ totalRuns' = scoreAfter(totalRuns, o)
       /\ playerRuns' = IF o = WicketOutcome THEN playerRuns
                        ELSE [playerRuns EXCEPT ![striker] = @ + o]
       /\ currentBatsman1' = b.b1
       /\ currentBatsman2' = b.b2
       /\ stats' = s2
       /\ totalBalls' = totalBalls + 1
       /\ currentOverBalls' = IF overDone THEN 0 ELSE currentOverBalls + 1
       /\ totalOvers' = IF overDone THEN totalOvers + 1 ELSE totalOvers
       /\ currentBowler' = bw.currentBowler
       /\ previousBowler' = bw.previousBowler

\* A step without the guard on a Complete innings.
playBallUnguarded(o) == playBallBody(o)

\* if (isInningsComplete()) return;  then the body
playBallStep(o) ==
    IF isInningsComplete
    THEN UNCHANGED <<innings, stats>>
    ELSE playBallBody(o)

\* One call of Innings::playBall; `o` is what the random draw returns when
\* the call gets as far as drawing.
playBall(o) ==
    /\ pc = "play"
    /\ IF isInningsComplete
       THEN calls < totalBalls + MaxIdleCalls /\ UNCHANGED <<outcome, ballRuns>>
       ELSE /\ (o = WicketOutcome \/ totalRuns + o <= MaxRuns)
            /\ outcome' = o
            /\ ballRuns' = ballRuns + (IF o = WicketOutcome THEN 0 ELSE o)
    /\ playBallStep(o)
    /\ calls' = calls + 1
    /\ UNCHANGED <<pc, matchVars>>

SetBatsmen == \E s \in BatsmanNames, n \in BatsmanNames : setBatsmen(s, n)
SetBowler == \E b \in BowlerNames : setBowler(b)
PlayBall == \E o \in ballOutcomes : playBall(o)

Next == SetBatsmen \/ SetBowler \/ PlayBall

Spec == Init /\ [][Next]_vars

\* ------------------------------------------------------------------ Team
\* A points update that gives the winner's two points whatever is asked.
addPointsFlat(t, pts) == [t EXCEPT !.points = @ + 2]

\* Team::addPoints
addPoints(t, pts) == [t EXCEPT !.points = @ + pts]

\* A result update that forgets to count the match as played.
updateMatchResultUncounted(t, res) ==
    CASE res = "WIN" -> [t EXCEPT !.matchesWon = @ + 1]
      [] res = "LOSS" -> [t EXCEPT !.matchesLost = @ + 1]
      [] res = "TIE" -> [t EXCEPT !.matchesTied = @ + 1]
      [] OTHER -> t

\* Team::updateMatchResult
updateMatchResult(t, res) ==
    LET u == [t EXCEPT !.matchesPlayed = @ + 1]
    IN CASE res = "WIN" -> [u EXCEPT !.matchesWon = @ + 1]
         [] res = "LOSS" -> [u EXCEPT !.matchesLost = @ + 1]
         [] res = "TIE" -> [u EXCEPT !.matchesTied = @ + 1]
         [] OTHER -> u

\* ----------------------------------------------------------------- Match
\* A result rule with >= where the code has >: equal scores go to team1.
determineResultLoose(score1, score2, t1, t2, ts) ==
    IF score1 >= score2
    THEN [result |-> "WIN",
          teamStats |-> [ts EXCEPT ![t1] = addPoints(updateMatchResult(@, "WIN"), 2),
                                   ![t2] = updateMatchResult(@, "LOSS")]]
    ELSE [result |-> "LOSS",
          teamStats |-> [ts EXCEPT ![t1] = updateMatchResult(@, "LOSS"),
                                   ![t2] = addPoints(updateMatchResult(@, "WIN"), 2)]]

\* Match::determineResult for the two innings totals: the result (relative
\* to team1 = t1) and the teams' counters after it.
determineResult(score1, score2, t1, t2, ts) ==
    IF score1 > score2
    THEN [result |-> "WIN",
          teamStats |-> [ts EXCEPT ![t1] = addPoints(updateMatchResult(@, "WIN"), 2),
                                   ![t2] = updateMatchResult(@, "LOSS")]]
    ELSE IF score2 > score1
    THEN [result |-> "LOSS",
          teamStats |-> [ts EXCEPT ![t1] = updateMatchResult(@, "LOSS"),
                                   ![t2] = addPoints(updateMatchResult(@, "WIN"), 2)]]
    ELSE [result |-> "TIE",
          teamStats |-> [ts EXCEPT ![t1] = addPoints(updateMatchResult(@, "TIE"), 1),
                                   ![t2] = addPoints(updateMatchResult(@, "TIE"), 1)]]

\* A scan test with >= where the code has >: the last seen wins ties.
beatsOrTies(credits, maxCredits) == credits >= maxCredits

\* if (player->getMatchCredits() > maxCredits)
beats(credits, maxCredits) == credits > maxCredits

\* One for loop of getPlayerOfInnings over `order`, from position i, entered
\* with best = [bestPlayer, maxCredits].
RECURSIVE scanOrder(_, _, _, _)
scanOrder(order, i, best, st) ==
    IF i >= Len(order) THEN best
    ELSE LET p == At(order, i)
         IN scanOrder(order, i + 1,
                      IF beats(st[p].matchCredits, best.maxCredits)
                      THEN [bestPlayer |-> p, maxCredits |-> st[p].matchCredits]
                      ELSE best,
                      st)

\* Innings::getPlayerOfInnings: the batting order is scanned, then the bowling
\* order, reading the players' match credits as they stand at the call.
getPlayerOfInnings(batting, bowling, st) ==
    scanOrder(bowling, 0,
              scanOrder(batting, 0, [bestPlayer |-> "null", maxCredits |-> -1], st),
              st).bestPlayer

\* Match::calculatePlayerOfMatch, given the two innings' awardees
calculatePlayerOfMatch(player1, player2, st) ==
    IF st[player1].matchCredits > st[player2].matchCredits THEN player1
    ELSE player2

\* The fields of the innings held in the variables, as a record, and the
\* variables taking the fields of the innings `in`.
ThisInnings ==
    [battingTeam |-> battingTeam, bowlingTeam |-> bowlingTeam,
     currentBatsman1 |-> currentBatsman1, currentBatsman2 |-> currentBatsman2,
     currentBowler |-> currentBowler, previousBowler |-> previousBowler,
     totalRuns |-> totalRuns, totalWickets |-> totalWickets,
     totalOvers |-> totalOvers, totalBalls |-> totalBalls,
     currentOverBalls |-> currentOverBalls,
     playerRuns |-> playerRuns, playerWickets |-> playerWickets]

TurnTo(in) ==
    /\ battingTeam' = in.battingTeam
    /\ bowlingTeam' = in.bowlingTeam
    /\ currentBatsman1' = in.currentBatsman1
    /\ currentBatsman2' = in.currentBatsman2
    /\ currentBowler' = in.currentBowler
    /\ previousBowler' = in.previousBowler
    /\ totalRuns' = in.totalRuns
    /\ totalWickets' = in.totalWickets
    /\ totalOvers' = in.totalOvers
    /\ totalBalls' = in.totalBalls
    /\ currentOverBalls' = in.currentOverBalls
    /\ playerRuns' = in.playerRuns
    /\ playerWickets' = in.playerWickets
    /\ outcome' = -1
    /\ calls' = 0
    /\ ballRuns' = 0

\* A sequence of draws that plays an innings to its end and no further: the
\* second wicket on its last ball, or twelve balls with fewer than two.
WicketsIn(s) == Cardinality({i \in 1..Len(s) : s[i] = WicketOutcome})
IsInningsScript(s) ==
    /\ \A i \in 1..Len(s) : s[i] \in ballOutcomes
    /\ \/ Len(s) = MaxOvers * BallsPerOver /\ WicketsIn(s) < MaxWickets
       \/ /\ Len(s) <= MaxOvers * BallsPerOver
          /\ WicketsIn(s) = MaxWickets
          /\ s[Len(s)] = WicketOutcome

\* The tournament with playRound entered for the first fixture.
MatchInit ==
    /\ pc = "setupInnings"
    /\ Constructed
    /\ currentBatsman1 = 0
    /\ currentBatsman2 = 1
    /\ currentBowler = 0
    /\ previousBowler = -1
    /\ totalRuns = 0
    /\ totalWickets = 0
    /\ totalOvers = 0
    /\ totalBalls = 0
    /\ currentOverBalls = 0
    /\ playerRuns = [p \in Range(battingOrder) |-> 0]
    /\ playerWickets = [p \in Range(bowlingOrder) |-> 0]
    /\ stats = [p \in Players |-> NewPlayer(typeOf[p])]
    /\ outcome = -1
    /\ calls = 0
    /\ ballRuns = 0

\* Match::setupInnings: the six names read from cin, innings1->setBatsmen and
\* setBowler, then innings2->setBatsmen and setBowler. s1 and s2 are the
\* outcomes the random draws of the two innings are going to return.
setupInnings(striker1, nonStriker1, bowler1, striker2, nonStriker2, bowler2, s1, s2) ==
    LET order2 == playing5[otherInnings.battingTeam]
        bowling2 == playing5[otherInnings.bowlingTeam]
    IN /\ pc = "setupInnings"
       /\ IsInningsScript(s1) /\ IsInningsScript(s2)
       /\ currentBatsman1' = findIndex(battingOrder, striker1, 0, currentBatsman1)
       /\ currentBatsman2' = findIndex(battingOrder, nonStriker1, 0, currentBatsman2)
       /\ currentBowler' = findIndex(bowlingOrder, bowler1, 0, currentBowler)
       /\ otherInnings' =
            [otherInnings EXCEPT
               !.currentBatsman1 = findIndex(order2, striker2, 0, @),
               !.currentBatsman2 = findIndex(order2, nonStriker2, 0, @),
               !.currentBowler = findIndex(bowling2, bowler2, 0, @)]
       /\ nameMissing' = \/ {striker1, nonStriker1} \ Range(battingOrder) # {}
                         \/ bowler1 \notin Range(bowlingOrder)
                         \/ {striker2, nonStriker2} \ Range(order2) # {}
                         \/ bowler2 \notin Range(bowling2)
       /\ script' = <<s1, s2>>
       /\ creditsBefore' = [p \in Players |-> stats[p].totalCredits]
       /\ pc' = "innings1"
       /\ UNCHANGED <<previousBowler, totalRuns, totalWickets, totalOvers,
                      totalBalls, currentOverBalls, playerRuns, playerWickets,
                      stats, outcome, calls, ballRuns, battingTeam, bowlingTeam,
                      teamStats, currentRound, result, awardees, playerOfMatch>>

\* A loop test that lets the innings go after its first ball.
inningsLoopDoneEarly == totalBalls >= 1

\* while (!innings->isInningsComplete()): the test that ends the loop
inningsLoopDone == isInningsComplete

\* One turn of a while loop of Match::playMatch: innings->playBall(), the
\* draw returning the next outcome of the script.
playMatchBall ==
    /\ pc \in {"innings1", "innings2"}
    /\ ~inningsLoopDone
    /\ script[1] # <<>>
    /\ LET o == Head(script[1])
       IN /\ playBallStep(o)
          /\ outcome' = o
          /\ ballRuns' = ballRuns + (IF o = WicketOutcome THEN 0 ELSE o)
    /\ calls' = calls + 1
    /\ script' = <<Tail(script[1]), script[2]>>
    /\ UNCHANGED <<pc, battingTeam, bowlingTeam, otherInnings, teamStats,
                   currentRound, result, awardees, playerOfMatch, nameMissing,
                   creditsBefore>>

\* Match::playMatch between its two loops: the first innings is over and
\* the second begins (the variables turn to innings2).
secondInnings ==
    /\ pc = "innings1"
    /\ inningsLoopDone
    /\ otherInnings' = ThisInnings
    /\ TurnTo(otherInnings)
    /\ script' = <<script[2], <<>>>>
    /\ pc' = "innings2"
    /\ UNCHANGED <<stats, teamStats, currentRound, result, awardees,
                   playerOfMatch, nameMissing, creditsBefore>>

\* The end of Match::playMatch (determineResult, calculatePlayerOfMatch) and
\* of Tournament::playRound (currentRound++).
finishMatch ==
    /\ pc = "innings2"
    /\ inningsLoopDone
    /\ LET team1 == otherInnings.battingTeam
           team2 == battingTeam
           r == determineResult(otherInnings.totalRuns, totalRuns, team1, team2, teamStats)
           player1 == getPlayerOfInnings(playing5[team1], playing5[team2], stats)
           player2 == getPlayerOfInnings(battingOrder, bowlingOrder, stats)
       IN /\ result' = r.result
          /\ teamStats' = r.teamStats
          /\ awardees' = [player1 |-> player1, player2 |-> player2]
          /\ playerOfMatch' = calculatePlayerOfMatch(player1, player2, stats)
    /\ currentRound' = currentRound + 1
    /\ pc' = "roundDone"
    /\ UNCHANGED <<innings, stats, outcome, calls, ballRuns, battingTeam,
                   bowlingTeam, otherInnings, script, nameMissing, creditsBefore>>

\* The next turn of the loop of playTournament: playRound is entered for the
\* fixture matches[currentRound], whose innings are as constructed.
enterRound ==
    /\ pc = "roundDone"
    /\ currentRound < Len(matches)
    /\ LET m == At(matches, currentRound)
       IN /\ TurnTo(NewInnings(m.team1, m.team2))
          /\ otherInnings' = NewInnings(m.team2, m.team1)
    /\ script' = <<>>
    /\ result' = "unset"
    /\ awardees' = [player1 |-> "null", player2 |-> "null"]
    /\ playerOfMatch' = "null"
    /\ nameMissing' = FALSE
    /\ pc' = "setupInnings"
    /\ UNCHANGED <<stats, teamStats, currentRound, creditsBefore>>

\* enterRound for the first MaxRounds fixtures only.
nextRound == currentRound < MaxRounds /\ enterRound

\* ------------------------------------------------------- one match played
\* The draws of an innings of the match: two wickets at once; a single and
\* two wickets; four sixes to the striker and two wickets; twelve dot balls;
\* a wicket on the last ball of the first over and runs in the second; and
\* the example innings 4 1 0 6 W 2 1 1 0 4 6 W.
MatchScripts ==
    {<<5, 5>>,
     <<1, 5, 5>>,
     <<6, 6, 6, 6, 5, 5>>,
     <<0, 0, 0, 0, 0, 0, 0, 0, 0, 0, 0, 0>>,
     <<0, 0, 0, 0, 0, 5, 3, 2, 4, 0, 0, 0>>,
     <<4, 1, 0, 6, 5, 2, 1, 1, 0, 4, 6, 5>>}

\* The names typed for an innings of the match.
MatchStrikers(order) == {order[1], NoSuchName}
MatchNonStrikers(order) == {order[2]}
MatchBowlers(order) == {order[1], order[2], order[5]}

SetupMatch ==
    \E st1 \in MatchStrikers(battingOrder), ns1 \in MatchNonStrikers(battingOrder),
       bw1 \in MatchBowlers(bowlingOrder),
       st2 \in MatchStrikers(bowlingOrder), ns2 \in MatchNonStrikers(bowlingOrder),
       bw2 \in MatchBowlers(battingOrder),
       s1 \in MatchScripts, s2 \in MatchScripts :
        setupInnings(st1, ns1, bw1, st2, ns2, bw2, s1, s2)

MatchNext == SetupMatch \/ playMatchBall \/ secondInnings \/ finishMatch

MatchSpec == MatchInit /\ [][MatchNext]_vars

\* ------------------------------------------------- the rounds in sequence
\* The draws of an innings of a round: two wickets at once, or a single
\* and two wickets.
RoundScripts == {<<5, 5>>, <<1, 5, 5>>}

\* The names typed for an innings of a round: the first two batters of the
\* order open, and the first or the second player of the other side bowls.
RoundBowlers(order) == {order[1], order[2]}

SetupRound ==
    \E bw1 \in RoundBowlers(bowlingOrder), bw2 \in RoundBowlers(battingOrder),
       s1 \in RoundScripts, s2 \in RoundScripts :
        setupInnings(battingOrder[1], battingOrder[2], bw1,
                     bowlingOrder[1], bowlingOrder[2], bw2, s1, s2)

TournamentNext ==
    SetupRound \/ playMatchBall \/ secondInnings \/ finishMatch \/ nextRound

TournamentSpec == MatchInit /\ [][TournamentNext]_vars

\* ------------------------------------- an innings fed a fixed sequence
\* The draws 4 1 0 6 W 2 1 1 0 4 6 W, a wicket being the outcome 5.
OutcomeSequence ==
    <<4, 1, 0, 6, WicketOutcome, 2, 1, 1, 0, 4, 6, WicketOutcome>>

\* setupInnings of a match whose first innings is going to draw
\* OutcomeSequence.
SetupSequence ==
    \E st1 \in MatchStrikers(battingOrder), ns1 \in MatchNonStrikers(battingOrder),
       bw1 \in MatchBowlers(bowlingOrder),
       st2 \in MatchStrikers(bowlingOrder), ns2 \in MatchNonStrikers(bowlingOrder),
       bw2 \in MatchBowlers(battingOrder),
       s2 \in MatchScripts :
        setupInnings(st1, ns1, bw1, st2, ns2, bw2, OutcomeSequence, s2)

SequenceNext == SetupSequence \/ playMatchBall \/ secondInnings \/ finishMatch

SequenceSpec == MatchInit /\ [][SequenceNext]_vars

\* ------------------------------------------------- the whole tournament
\* Tournament::isCompleted, set by playTournament after its loop.
isCompleted == pc = "completed"

\* playTournament after the last turn of its loop: isCompleted = true.
completeTournament ==
    /\ pc = "roundDone"
    /\ ~(currentRound < Len(matches))
    /\ pc' = "completed"
    /\ UNCHANGED <<innings, stats, outcome, calls, ballRuns, matchVars>>

\* playRound called once more after the last fixture: its test
\* currentRound < matches.size() fails and nothing is done.
surplusRound ==
    /\ pc = "completed"
    /\ IF currentRound < Len(matches)
       THEN enterRound
       ELSE UNCHANGED vars

\* The draws of the two innings of a fixture: a scoreless tie; the example
\* innings against a single; nine runs against four sixes.
FixtureScripts ==
    {<<<<5, 5>>, <<5, 5>>>>,
     <<OutcomeSequence, <<1, 5, 5>>>>,
     <<<<0, 0, 0, 0, 0, 5, 3, 2, 4, 0, 0, 0>>, <<6, 6, 6, 6, 5, 5>>>>}

\* setupInnings of a fixture: the first two batters of each order open and
\* the first player of the other side bowls.
SetupFixture ==
    \E s \in FixtureScripts :
        setupInnings(battingOrder[1], battingOrder[2], bowlingOrder[1],
                     bowlingOrder[1], bowlingOrder[2], battingOrder[1], s[1], s[2])

PlayTournamentNext ==
    \/ SetupFixture \/ playMatchBall \/ secondInnings \/ finishMatch
    \/ enterRound \/ completeTournament \/ surplusRound

PlayTournamentSpec == MatchInit /\ [][PlayTournamentNext]_vars

\* ---------------------------------------------------------------- claims
\* A step of the behaviour that is one playBall call / one ball bowled.
CallStep == calls' = calls + 1
BallStep == CallStep /\ totalBalls' = totalBalls + 1
WicketStep == BallStep /\ totalWickets' = totalWickets + 1
HigherBatsman == IF currentBatsman1 > currentBatsman2 THEN currentBatsman1
                 ELSE currentBatsman2

\* C1: after at most MaxOvers * BallsPerOver = 12 playBall calls the innings
\* is Complete (wickets >= 2 or completed overs >= 2), and a Complete innings
\* has at most 2 wickets and at most 2 completed overs.
C1_Termination ==
    /\ calls >= MaxOvers * BallsPerOver =>
           (totalWickets >= MaxWickets \/ totalOvers >= MaxOvers)
    /\ (totalWickets >= MaxWickets \/ totalOvers >= MaxOvers) =>
           (totalWickets <= MaxWickets /\ totalOvers <= MaxOvers)

\* The innings that uses all twelve calls: it completes on overs, not wickets.
C1_Witness ==
    /\ calls = MaxOvers * BallsPerOver
    /\ totalBalls = calls
    /\ totalOvers = MaxOvers
    /\ totalWickets < MaxWickets

\* C2: once the innings is Complete, a playBall call leaves the innings state
\* and every player's statistics unchanged, and the innings stays Complete.
C2_CompleteIsTerminal ==
    [][(totalWickets >= MaxWickets \/ totalOvers >= MaxOvers) =>
         /\ UNCHANGED <<innings, stats>>
         /\ (totalWickets' >= MaxWickets \/ totalOvers' >= MaxOvers)]_vars

\* playBall has been called on an innings that was already Complete.
C2_Witness ==
    /\ totalWickets >= MaxWickets
    /\ totalOvers < MaxOvers
    /\ calls > totalBalls

\* C3: totalOvers * 6 + currentOverBalls = totalBalls with
\* 0 <= currentOverBalls < 6 in every state; a playBall call on an innings in
\* progress adds exactly one to totalBalls; the sixth ball of an over resets
\* currentOverBalls to 0 and adds one to totalOvers (any other ball adds one
\* to currentOverBalls and leaves totalOvers).
C3_BallAccounting ==
    /\ [](/\ totalOvers * BallsPerOver + currentOverBalls = totalBalls
          /\ currentOverBalls >= 0
          /\ currentOverBalls < BallsPerOver)
    /\ [][(CallStep /\ totalWickets < MaxWickets /\ totalOvers < MaxOvers) =>
            /\ totalBalls' = totalBalls + 1
            /\ IF currentOverBalls = BallsPerOver - 1
               THEN currentOverBalls' = 0 /\ totalOvers' = totalOvers + 1
               ELSE currentOverBalls' = currentOverBalls + 1
                    /\ totalOvers' = totalOvers]_vars

\* The first over has just been completed.
C3_Witness ==
    /\ totalBalls = BallsPerOver
    /\ currentOverBalls = 0
    /\ totalOvers = 1

\* C4: a ball scoring 1 or 3 swaps the on-strike and off-strike indices; a
\* ball scoring 0, 2, 4 or 6 leaves both unchanged.
C4_StrikeRotation ==
    [][BallStep =>
         /\ outcome' \in {1, 3} =>
                /\ currentBatsman1' = currentBatsman2
                /\ currentBatsman2' = currentBatsman1
         /\ outcome' \in {0, 2, 4, 6} =>
                UNCHANGED <<currentBatsman1, currentBatsman2>>]_vars

\* A three was run off the second ball by the batter who took strike after a
\* single off the first: the openers A1 and A2 are back where they began.
C4_Witness ==
    /\ outcome = 3
    /\ totalBalls = 2
    /\ totalRuns = 4
    /\ currentBatsman1 = 0
    /\ currentBatsman2 = 1

\* C5: when an over is completed the next bowler differs from the bowler who
\* just finished, is the next index of the bowling order (wrapping around),
\* the finished bowler is remembered as previousBowler, and the do-while of
\* changeBowler ends (after one run of its body, for an order of length 5).
C5_BowlerRotation ==
    [][totalOvers' = totalOvers + 1 =>
         /\ currentBowler' # currentBowler
         /\ currentBowler' = (currentBowler + 1) % Len(bowlingOrder)
         /\ previousBowler' = currentBowler
         /\ nextBowler(currentBowler, currentBowler, 0).iterations = 1]_vars

\* The last bowler of the order finished the first over: the rotation wrapped.
C5_Witness ==
    /\ totalOvers = 1
    /\ previousBowler = Len(bowlingOrder) - 1
    /\ currentBowler = 0

\* C6: totalRuns equals the sum of the run outcomes of the balls bowled so
\* far, a wicket ball counting 0.
C6_ScoreConservation == totalRuns = ballRuns

\* Runs were scored and a wicket fell.
C6_Witness ==
    /\ totalWickets = 1
    /\ totalRuns = MaxRuns
    /\ outcome = WicketOutcome

\* C7: the on-strike and off-strike indices are distinct in every reachable
\* state, whatever names setBatsmen was given.
C7_BatsmenDistinct == currentBatsman1 # currentBatsman2

\* C8: the on-strike, off-strike and current-bowler indices are within
\* [0, 5) in every reachable state.
C8_IndicesInRange ==
    /\ currentBatsman1 \in 0..(Len(battingOrder) - 1)
    /\ currentBatsman2 \in 0..(Len(battingOrder) - 1)
    /\ currentBowler \in 0..(Len(bowlingOrder) - 1)

\* A wicket fell with a batter at the last position (changeBatsman found no
\* next position) and the last bowler's over has been followed by the first's.
C8_Witness ==
    /\ totalWickets = 1
    /\ currentBatsman1 = Len(battingOrder) - 1
    /\ outcome = WicketOutcome
    /\ previousBowler = Len(bowlingOrder) - 1
    /\ currentBowler = 0

\* C9: on a wicket ball where position max(striker, nonStriker) + 1 exists,
\* the on-strike slot is set to that position and the off-strike index is
\* unchanged.
C9_DismissedSlotReplaced ==
    [][(WicketStep /\ HigherBatsman + 1 < Len(battingOrder)) =>
         /\ currentBatsman1' = HigherBatsman + 1
         /\ currentBatsman2' = currentBatsman2]_vars

\* C10: a wicket that falls when max(striker, nonStriker) + 1 is no position
\* of the batting order forces the innings to Complete.
C10_ExhaustedForcesComplete ==
    [][(WicketStep /\ HigherBatsman + 1 >= Len(battingOrder)) =>
         (totalWickets' >= MaxWickets \/ totalOvers' >= MaxOvers
          \/ pc' # "play")]_vars

\* --------------------------------------------- claims on Match and rounds
\* The match that is being played or was played last: its two sides, whether
\* an innings record is Complete, and the players taking part in it.
InningsOver(in) == in.totalWickets >= MaxWickets \/ in.totalOvers >= MaxOvers
Participants == Range(battingOrder) \cup Range(bowlingOrder)
MatchCredit(p) == stats[p].matchCredits

\* C11: when a name typed at setup is in nobody's lineup, no ball of the
\* match is played (the error is reported first).
C11_AbsentNameStopsPlay ==
    nameMissing => (totalBalls = 0 /\ otherInnings.totalBalls = 0)

\* C12: no ball of the second innings is played before the first innings is
\* Complete; the result is determined, and the teams' counters touched, only
\* when both innings are Complete; and every fixture played so far has been
\* counted exactly once for each of its two teams and for no other team.
C12_InningsInOrder ==
    /\ [](\A t \in Range(teams) :
            teamStats[t].matchesPlayed =
                Cardinality({k \in 1..currentRound :
                                t \in {matches[k].team1, matches[k].team2}}))
    /\ [][/\ pc' = "innings2" => InningsOver(otherInnings')
          /\ (result' # result /\ result' # "unset") =>
                 InningsOver(ThisInnings) /\ InningsOver(otherInnings)
          /\ teamStats' # teamStats =>
                 /\ InningsOver(ThisInnings) /\ InningsOver(otherInnings)
                 /\ currentRound' = currentRound + 1
                 /\ result' # "unset"]_vars

\* A ball of the second innings of the second round has been played.
C12_Witness ==
    /\ pc = "innings2"
    /\ currentRound = 1
    /\ totalBalls = 1
    /\ otherInnings.totalWickets = MaxWickets

\* C13: the result is WIN exactly when team A's runs exceed team B's, LOSS
\* exactly when team B's exceed team A's, TIE exactly when they are equal,
\* and is never NO_RESULT; the wickets lost are not looked at.
C13_ResultRule ==
    /\ result # "NO_RESULT"
    /\ pc = "roundDone" =>
         /\ result \in {"WIN", "LOSS", "TIE"}
         /\ result = "WIN" <=> otherInnings.totalRuns > totalRuns
         /\ result = "LOSS" <=> totalRuns > otherInnings.totalRuns
         /\ result = "TIE" <=> totalRuns = otherInnings.totalRuns

\* Team A lost no wicket, team B lost two, and team A lost the match by a run.
C13_Witness ==
    /\ pc = "roundDone"
    /\ result = "LOSS"
    /\ otherInnings.totalWickets = 0
    /\ totalWickets = MaxWickets
    /\ totalRuns = otherInnings.totalRuns + 1

\* C14: every team has points = 2 * matchesWon + matchesTied.
C14_PointsRule ==
    \A t \in Range(teams) :
        teamStats[t].points = 2 * teamStats[t].matchesWon + teamStats[t].matchesTied

\* A team has won a match and tied another: three points.
C14_Witness ==
    \E t \in Range(teams) :
        /\ teamStats[t].matchesWon = 1
        /\ teamStats[t].matchesTied = 1
        /\ teamStats[t].points = 3

\* C15: the player of the match is the innings awardee with the higher match
\* credit, and the first innings' awardee when the two credits are equal.
C15_TieFavoursFirstInnings ==
    pc = "roundDone" =>
        playerOfMatch =
            IF MatchCredit(awardees.player1) >= MatchCredit(awardees.player2)
            THEN awardees.player1
            ELSE awardees.player2

\* C16: the awardee of an innings is a player (never null) whose match credit
\* is the greatest over the innings' batting and bowling orders, and no
\* player before that one, scanning the batting order and then the bowling
\* order, has as much.
FirstBest(p, scan) ==
    \E i \in 1..Len(scan) :
        /\ scan[i] = p
        /\ \A j \in 1..Len(scan) : MatchCredit(scan[j]) <= MatchCredit(p)
        /\ \A j \in 1..(i - 1) : MatchCredit(scan[j]) < MatchCredit(p)
C16_FirstBestOfInnings ==
    pc = "roundDone" =>
        /\ awardees.player1 # "null"
        /\ awardees.player2 # "null"
        /\ FirstBest(awardees.player1,
                     playing5[otherInnings.battingTeam]
                         \o playing5[otherInnings.bowlingTeam])
        /\ FirstBest(awardees.player2, battingOrder \o bowlingOrder)

\* A bowler of each side has the greatest credit, 2: each innings awards the
\* one it meets first.
C16_Witness ==
    /\ pc = "roundDone"
    /\ awardees.player1 # awardees.player2
    /\ MatchCredit(awardees.player1) = MaxWickets
    /\ MatchCredit(awardees.player2) = MaxWickets

\* C17: at the end of a match every participant's career credit is the
\* career credit it had when the match began plus its match credit.
C17_CareerIsBeforePlusMatch ==
    pc = "roundDone" =>
        \A p \in Participants :
            stats[p].totalCredits = creditsBefore[p] + stats[p].matchCredits

\* C18: when a match begins every participant's match credit is 0, and
\* career credit never decreases.
C18_MatchCreditReset ==
    /\ [](pc = "innings1" /\ calls = 0 =>
             \A p \in Participants : stats[p].matchCredits = 0)
    /\ [][\A p \in Players : stats'[p].totalCredits >= stats[p].totalCredits]_vars

\* C19: a Batter's match credit is floor(R / 20) for the R runs the Batter
\* scored in the match.
C19_BatterCredit ==
    \A p \in Players :
        stats[p].type = "BATSMAN" =>
            stats[p].matchCredits = stats[p].runsScored \div 20

\* C20: an AllRounder's match credit, and career credit after one match, is
\* floor(runs scored / 20) plus the wickets taken.
C20_AllRounderCredit ==
    \A p \in Players :
        stats[p].type = "ALLROUNDER" =>
            /\ stats[p].matchCredits =
                   (stats[p].totalRunsScored \div 20) + stats[p].totalWicketsTaken
            /\ stats[p].totalCredits = stats[p].matchCredits

\* ------------------------------------- claims on the example and the tallies
\* C21: fed the draws 4 1 0 6 W 2 1 1 0 4 6 W, the innings is not Complete
\* after any of the first 11 balls and is Complete after the 12th, with 25
\* runs, 2 wickets, 12 balls bowled, 2 overs done and no ball in the current
\* over.
C21_ExampleInnings ==
    LET n == Len(OutcomeSequence)
        AtEnd(in) ==
            /\ in.totalBalls = n
            /\ in.totalRuns = 25
            /\ in.totalWickets = 2
            /\ in.totalOvers = 2
            /\ in.currentOverBalls = 0
    IN /\ pc = "innings1" =>
            /\ totalBalls <= n
            /\ script[1] = SubSeq(OutcomeSequence, totalBalls + 1, n)
            /\ totalBalls < n => ~isInningsComplete
            /\ totalBalls = n => isInningsComplete /\ AtEnd(ThisInnings)
       /\ pc \in {"innings2", "roundDone"} => AtEnd(otherInnings)

\* The twelfth ball of the sequence has been bowled.
C21_Witness ==
    /\ pc = "innings1"
    /\ script[1] = <<>>
    /\ totalBalls = Len(OutcomeSequence)
    /\ outcome = WicketOutcome
    /\ totalRuns = 25

\* The sum of f[x] over the x of S.
RECURSIVE SumOver(_, _)
SumOver(f, S) ==
    IF S = {} THEN 0
    ELSE LET x == CHOOSE y \in S : TRUE
         IN f[x] + SumOver(f, S \ {x})

\* C22: on a ball scoring r runs the current bowler's runs conceded go up by
\* r and balls bowled by one, and the striker's balls faced go up by one,
\* whatever the types of the two players.
C22_RunsBallTallies ==
    [][(BallStep /\ outcome' # WicketOutcome) =>
         LET bowler == At(bowlingOrder, currentBowler)
             striker == At(battingOrder, currentBatsman1)
         IN /\ stats'[bowler].totalRunsConceded =
                   stats[bowler].totalRunsConceded + outcome'
            /\ stats'[bowler].totalBallsBowled = stats[bowler].totalBallsBowled + 1
            /\ stats'[striker].totalBallsFaced = stats[striker].totalBallsFaced + 1]_vars

\* C23: every ball adds exactly one to the current bowler's balls bowled, so
\* the balls bowled of the bowling side add up to the balls of the innings;
\* a wicket ball also adds exactly one to the innings' wickets, to the
\* bowler's wickets of the innings and to the bowler's career wickets.
C23_BallsBowledTally ==
    /\ [](SumOver([p \in Range(bowlingOrder) |-> stats[p].totalBallsBowled],
                  Range(bowlingOrder)) = totalBalls)
    /\ [][BallStep =>
            LET bowler == At(bowlingOrder, currentBowler)
            IN /\ stats'[bowler].totalBallsBowled = stats[bowler].totalBallsBowled + 1
               /\ outcome' = WicketOutcome =>
                    /\ totalWickets' = totalWickets + 1
                    /\ playerWickets'[bowler] = playerWickets[bowler] + 1
                    /\ stats'[bowler].totalWicketsTaken =
                           stats[bowler].totalWicketsTaken + 1]_vars

\* The two sides of a fixture, and the fixtures played so far that `t` is in.
Sides(m) == {m.team1, m.team2}
PlayedBy(t) == {k \in 1..currentRound : t \in Sides(matches[k])}

\* C24: the fixtures are a round-robin (every two distinct teams meet in
\* exactly one of them); they are played one at a time in fixture order and
\* none twice; a playRound after the last one does nothing; isCompleted
\* becomes true only when all of them are played, and then every team has
\* played numberOfTeams - 1 matches.
C24_RoundRobin ==
    /\ [](/\ \A a, b \in Range(teams) :
               a # b => Cardinality({k \in DOMAIN matches :
                                        Sides(matches[k]) = {a, b}}) = 1
          /\ \A k \in DOMAIN matches : matches[k].team1 # matches[k].team2
          /\ currentRound \in 0..Len(matches)
          /\ pc \in {"setupInnings", "innings1", "innings2"} =>
               /\ currentRound < Len(matches)
               /\ {battingTeam, bowlingTeam} = Sides(At(matches, currentRound))
          /\ \A t \in Range(teams) :
               teamStats[t].matchesPlayed = Cardinality(PlayedBy(t))
          /\ isCompleted =>
               /\ currentRound = Len(matches)
               /\ \A t \in Range(teams) :
                    teamStats[t].matchesPlayed = Len(teams) - 1)
    /\ [][/\ currentRound' \in {currentRound, currentRound + 1}
          /\ isCompleted' /\ ~isCompleted => currentRound = Len(matches)
          /\ isCompleted => isCompleted' /\ UNCHANGED <<teamStats, currentRound, stats>>]_vars

\* The tournament is completed: six fixtures played, three by every team.
C24_Witness ==
    /\ isCompleted
    /\ currentRound = 6
    /\ \A t \in Range(teams) : teamStats[t].matchesPlayed = 3

\* C25: the innings total is the sum of the batters' runs of the innings and
\* the innings' wickets are the sum of the bowlers' wickets of the innings;
\* every team has matchesPlayed = matchesWon + matchesLost + matchesTied, and
\* the points of all teams add up to twice the number of matches completed.
C25_Conservation ==
    LET Balanced(in) ==
            /\ in.totalRuns = SumOver(in.playerRuns, DOMAIN in.playerRuns)
            /\ in.totalWickets = SumOver(in.playerWickets, DOMAIN in.playerWickets)
    IN /\ Balanced(ThisInnings)
       /\ Balanced(otherInnings)
       /\ \A t \in Range(teams) :
            teamStats[t].matchesPlayed =
                teamStats[t].matchesWon + teamStats[t].matchesLost
                    + teamStats[t].matchesTied
       /\ SumOver([t \in Range(teams) |-> teamStats[t].points], Range(teams))
              = 2 * currentRound

\* Every fixture is played, the last with 25 runs in its first innings, and
\* wins, losses and ties have all occurred.
C25_Witness ==
    /\ isCompleted
    /\ otherInnings.totalRuns = 25
    /\ otherInnings.totalWickets = 2
    /\ teamStats["A"].matchesWon = 1
    /\ teamStats["A"].matchesLost = 1
    /\ teamStats["A"].matchesTied = 1
    /\ SumOver([t \in Range(teams) |-> teamStats[t].points], Range(teams)) = 12

====
